---- MODULE Spec2Model ----
(***************************************************************************)
(* Model of cmd/erc20/main.go: the ERC20 deployment command.               *)
(*                                                                         *)
(* main() is a straight-line pipeline; every call that can fail or that    *)
(* reaches the network is one step of the model (pc is the position in     *)
(* main / createTransactor).  log.Fatal / log.Fatalf print a diagnostic    *)
(* and exit with status 1.  math/big values are modelled as a sign and a    *)
(* sequence of words, least significant first, with schoolbook arithmetic, *)
(* because the numbers of interest (10^36, 10^255) exceed machine ranges.  *)
(***************************************************************************)
EXTENDS Integers, Sequences, FiniteSets, TLC

VARIABLES
    cfg,         \* the parsed command-line flags (package-level vars, lines 19-28)
    privateKey,  \* *privateKey: the -key flag, overwritten by promptForPrivateKey
    pc,          \* position in main / createTransactor
    err,         \* main's err variable: "nil" or the error of the failed call
    netlog,      \* the network operations issued so far, in order (polls excluded)
    polls,       \* receipt polls issued by WaitMined (saturating counter)
    nonce,       \* createTransactor's local nonce, as <<>> or <<n>>
    chainID,     \* createTransactor's local chainID, as <<>> or <<id>>
    auth,        \* the *bind.TransactOpts returned by createTransactor
    supply,      \* the *big.Int returned by parseSupply
    tx,          \* the arguments handed to DeployERC20Token
    receipt,     \* the receipt returned by WaitMined, as <<>> or <<status>>
    verifyErr,   \* which of the read-only calls returned an error
    output,      \* the lines printed on stdout, in order
    diag,        \* the message of log.Fatal / log.Fatalf ("" if none)
    exitCode     \* <<>> while running, <<status>> once the process has exited

vars == <<cfg, privateKey, pc, err, netlog, polls, nonce, chainID, auth,
          supply, tx, receipt, verifyErr, output, diag, exitCode>>

-----------------------------------------------------------------------------
(* Bounds of the model *)

MaxPolls == 3          \* the poll counter saturates here
MaxSupplyLen == 2      \* generated supply strings have at most this many characters
MaxSmallDec == 2       \* decimals 0..MaxSmallDec are all tried by the scaling runs

(* Program constants *)

Base == 10                    \* SetString(supply, 10), big.NewInt(10)
WordBase == 10000             \* a big.Word of the model holds four decimal digits
Uint8Mod == 256               \* uint8(*tokenDecimals)
DefaultDecimals == 18         \* -decimals default
DefaultGasLimit == 3000000    \* -gas default
GweiToWei == 1000000000       \* *gasPriceGwei*1e9
StatusSuccessful == 1         \* receipt.Status == 1

-----------------------------------------------------------------------------
(* math/big *)

DigitChars == <<"0", "1", "2", "3", "4", "5", "6", "7", "8", "9">>

IsDigit(c) == \E i \in 1..Len(DigitChars) : DigitChars[i] = c

DigitVal(c) == (CHOOSE i \in 1..Len(DigitChars) : DigitChars[i] = c) - 1

\* a nat is a sequence of words, least significant first, as in math/big;
\* nat.norm drops the most significant zero words
RECURSIVE Norm(_)
Norm(z) == IF z = <<>> THEN <<>>
           ELSE IF z[Len(z)] = 0 THEN Norm(SubSeq(z, 1, Len(z) - 1))
           ELSE z

RECURSIVE Pow10(_)
Pow10(d) == IF d = 0 THEN 1 ELSE Base * Pow10(d - 1)

\* the number of decimal digits a word holds
WordDigits == CHOOSE k \in 1..9 : Pow10(k) = WordBase

\* addVV: the sum of two naturals, with the carry running upwards
RECURSIVE AddNat(_, _, _)
AddNat(x, y, c) ==
    IF x = <<>> /\ y = <<>> THEN (IF c = 0 THEN <<>> ELSE <<c>>)
    ELSE LET a == IF x = <<>> THEN 0 ELSE Head(x)
             b == IF y = <<>> THEN 0 ELSE Head(y)
             t == a + b + c
         IN  <<t % WordBase>> \o AddNat(IF x = <<>> THEN <<>> ELSE Tail(x),
                                        IF y = <<>> THEN <<>> ELSE Tail(y),
                                        t \div WordBase)

\* mulAddVWW: x times one word w, plus the carry c
RECURSIVE MulWord(_, _, _)
MulWord(x, w, c) ==
    IF x = <<>> THEN (IF c = 0 THEN <<>> ELSE <<c>>)
    ELSE LET p == Head(x) * w + c
         IN  <<p % WordBase>> \o MulWord(Tail(x), w, p \div WordBase)

Zeros(n) == [k \in 1..n |-> 0]

\* basicMul: z is cleared, then for each word y[i] of y the row x * y[i] is
\* added into z at offset i (addMulVVW); z has Len(x) + Len(y) words throughout
RECURSIVE BasicMulLoop(_, _, _, _)
BasicMulLoop(z, x, y, i) ==
    IF i >= Len(z) - Len(x) THEN z
    ELSE BasicMulLoop(AddNat(z, Zeros(i) \o MulWord(x, y[i + 1], 0), 0),
                      x, y, i + 1)

BasicMul(x, y) == BasicMulLoop(Zeros(Len(x) + Len(y)), x, y, 0)

\* nat.mul: the longer operand is multiplied by the words of the shorter one
MulNat(x, y) ==
    IF Len(x) < Len(y) THEN Norm(BasicMul(y, x)) ELSE Norm(BasicMul(x, y))

\* nat.expNN with a nil modulus: x^n by repeated squaring
RECURSIVE ExpNat(_, _)
ExpNat(x, n) ==
    IF n = 0 THEN <<1>>
    ELSE LET h == ExpNat(x, n \div 2)
             sq == MulNat(h, h)
         IN  IF n % 2 = 1 THEN MulNat(sq, x) ELSE sq

NilInt == [ok |-> FALSE, neg |-> FALSE, abs |-> <<>>]

\* nat.scan in base 10: the words of a string of decimal digits
ScanDigits(body) ==
    LET n == Len(body)
        digit(r) == IF r < n THEN DigitVal(body[n - r]) ELSE 0
        word(j) == LET r0 == WordDigits * (j - 1)
                   IN  digit(r0) + Base * digit(r0 + 1)
                       + Base * Base * digit(r0 + 2)
                       + Base * Base * Base * digit(r0 + 3)
    IN  Norm([j \in 1..((n + WordDigits - 1) \div WordDigits) |-> word(j)])

\* (*big.Int).SetString(s, 10): an optional sign, then one or more decimal
\* digits, and nothing else
SetString(s) ==
    LET signed == Len(s) > 0 /\ s[1] \in {"+", "-"}
        body   == IF signed THEN Tail(s) ELSE s
        ok     == Len(body) > 0 /\ \A i \in 1..Len(body) : IsDigit(body[i])
        abs    == ScanDigits(body)
    IN  IF ok
        THEN [ok |-> TRUE, neg |-> (s[1] = "-" /\ abs # <<>>), abs |-> abs]
        ELSE NilInt

\* uint8(n) of an unsigned machine integer
Uint8(n) == n % Uint8Mod

\* a variant of parseSupply whose product is kept in a machine word
\* (the five low words, twenty decimal digits)
parseSupply_Wrapped(s, decimals) ==
    LET value == SetString(s)
        multiplier == ExpNat(<<Base>>, decimals)
        prod == MulNat(value.abs, multiplier)
    IN  IF ~value.ok THEN NilInt
        ELSE [ok |-> TRUE, neg |-> value.neg,
              abs |-> Norm(SubSeq(prod, 1, IF Len(prod) < 5 THEN Len(prod) ELSE 5))]

\* parseSupply(supply string, decimals uint8) (*big.Int, error)
parseSupply(s, decimals) ==
    LET value == SetString(s)
        multiplier == ExpNat(<<Base>>, decimals)
    IN  IF ~value.ok THEN NilInt
        ELSE [ok |-> TRUE, neg |-> value.neg,
              abs |-> MulNat(value.abs, multiplier)]

-----------------------------------------------------------------------------
(* Inputs *)

\* -key / stdin values: "KEY" stands for 64 valid hex digits, "zz" for a
\* string that is no valid key
KeyFlags == {"", "KEY", "0xKEY", "zz"}

\* what the blocking read of stdin yields: a line, or "EOF" for a read error
StdinInputs == {"EOF", "", " ", "KEY", "0xKEY", "zz"}

PipelineSupplies ==
    { <<>>, <<"1", "0", "0", "0">>, <<"a", "b", "c">>, <<"-", "5">>, <<"+", "5">> }

PipelineDecimals == {DefaultDecimals, Uint8Mod}

GasLimits == {0, DefaultGasLimit}

\* -gasprice values as exact fractions of a gwei: unset, 1 gwei, half a wei,
\* and a negative price
GasPrices ==
    { [num |-> 0, den |-> 1], [num |-> 1, den |-> 1],
      [num |-> 1, den |-> 2 * GweiToWei], [num |-> 0 - 1, den |-> 1] }

\* answers of the node
NonceValues == {0, 7}
ChainIDs == {1}
SuggestedPrices == {0, GweiToWei}

\* strings.TrimSpace / strings.TrimPrefix(_, "0x") on the key tokens
TrimSpace(l) == IF l = " " THEN "" ELSE l
TrimPrefix0x(k) == IF k = "0xKEY" THEN "KEY" ELSE k

\* crypto.HexToECDSA succeeds on a well-formed key only
HexToECDSAOk(k) == k = "KEY"

\* int64(*gasPriceGwei*1e9) for a positive price: truncation toward zero
GweiFloatToWei(p) == (p.num * GweiToWei) \div p.den

\* context.Background() is never cancelled and has no deadline
CtxDone == FALSE

Append2(s, a, b) == Append(Append(s, a), b)

-----------------------------------------------------------------------------
(* main *)

\* every combination of flag values the command line may carry
FlagValues ==
    [rpcURL : {"", "http://node"}, key : KeyFlags,
     tokenName : {"", "TestCoin"}, tokenSymbol : {"", "TST"},
     tokenDecimals : PipelineDecimals, totalSupply : PipelineSupplies,
     gasLimit : GasLimits, gasPriceGwei : GasPrices]

\* the flag defaults of lines 19-28
FlagDefaults ==
    [rpcURL |-> "", key |-> "", tokenName |-> "", tokenSymbol |-> "",
     tokenDecimals |-> DefaultDecimals, totalSupply |-> <<>>,
     gasLimit |-> DefaultGasLimit, gasPriceGwei |-> [num |-> 0, den |-> 1]]

Init ==
    /\ cfg = FlagDefaults
    /\ privateKey = ""
    /\ pc = "flag.Parse"
    /\ err = "nil"
    /\ netlog = <<>>
    /\ polls = 0
    /\ nonce = <<>>
    /\ chainID = <<>>
    /\ auth = <<>>
    /\ supply = NilInt
    /\ tx = <<>>
    /\ receipt = <<>>
    /\ verifyErr = {}
    /\ output = <<>>
    /\ diag = ""
    /\ exitCode = <<>>

\* line 31: the flags take the values of the command line
ParseFlags ==
    /\ pc = "flag.Parse"
    /\ cfg' \in FlagValues
    /\ privateKey' = cfg'.key
    /\ pc' = "CheckFlags"
    /\ UNCHANGED <<err, netlog, polls, nonce, chainID, auth, supply, tx,
                   receipt, verifyErr, output, diag, exitCode>>

\* log.Fatal / log.Fatalf: print the diagnostic, os.Exit(1)
Fatal(msg, e) ==
    /\ pc' = "fatal"
    /\ diag' = msg
    /\ err' = e
    /\ exitCode' = <<1>>

\* a variant of RestMissing that forgets the symbol
RestMissing_NoSymbol ==
    cfg.tokenName = "" \/ cfg.totalSupply = <<>>

\* line 33, the operands after the key: name, symbol and supply
RestMissing ==
    cfg.tokenName = "" \/ cfg.tokenSymbol = "" \/ cfg.totalSupply = <<>>

\* lines 33-35 with promptForPrivateKey (lines 154-167); || short-circuits,
\* so stdin is read only when the endpoint is present and the key is not
CheckFlags ==
    /\ pc = "CheckFlags"
    /\ \E in \in StdinInputs :
         LET prompted == cfg.rpcURL # "" /\ privateKey = ""
             key == IF prompted /\ in # "EOF" THEN TrimSpace(in) ELSE privateKey
         IN  IF prompted /\ in = "EOF"
             THEN Fatal("Failed to read private key", "nil")
                  /\ UNCHANGED privateKey
             ELSE /\ privateKey' = key
                  /\ IF cfg.rpcURL = "" \/ key = "" \/ RestMissing
                     THEN Fatal("All flags are required", "nil")
                     ELSE pc' = "Dial" /\ UNCHANGED <<diag, err, exitCode>>
    /\ UNCHANGED <<cfg, netlog, polls, nonce, chainID, auth, supply, tx,
                   receipt, verifyErr, output>>

\* lines 37-40
Dial ==
    /\ pc = "Dial"
    /\ netlog' = Append(netlog, "dial")
    /\ \E ok \in BOOLEAN :
         IF ok THEN pc' = "HexToECDSA" /\ UNCHANGED <<diag, err, exitCode>>
         ELSE Fatal("Failed to connect to the Ethereum network", "dial")
    /\ UNCHANGED <<cfg, privateKey, polls, nonce, chainID, auth, supply, tx,
                   receipt, verifyErr, output>>

\* line 43 into createTransactor, lines 97-100 (and 44-46 on error)
HexToECDSA ==
    /\ pc = "HexToECDSA"
    /\ IF HexToECDSAOk(TrimPrefix0x(privateKey))
       THEN pc' = "PendingNonceAt" /\ UNCHANGED <<diag, err, exitCode>>
       ELSE Fatal("Failed to create transactor: invalid private key",
                  "invalid private key")
    /\ UNCHANGED <<cfg, privateKey, netlog, polls, nonce, chainID, auth, supply,
                   tx, receipt, verifyErr, output>>

\* a variant of PendingNonceAt that carries on with nonce 0 when the query fails
PendingNonceAt_IgnoreError ==
    /\ pc = "PendingNonceAt"
    /\ netlog' = Append(netlog, "nonce")
    /\ \E ok \in BOOLEAN :
         IF ok THEN \E n \in NonceValues :
                      nonce' = <<n>> /\ pc' = "ChainID" /\ err' = "nil"
         ELSE nonce' = <<0>> /\ pc' = "ChainID" /\ err' = "failed to get nonce"
    /\ UNCHANGED <<cfg, privateKey, polls, chainID, auth, supply, tx, receipt,
                   verifyErr, output, diag, exitCode>>

\* lines 109-112 (and 44-46 on error)
PendingNonceAt ==
    /\ pc = "PendingNonceAt"
    /\ netlog' = Append(netlog, "nonce")
    /\ \E ok \in BOOLEAN :
         IF ok THEN \E n \in NonceValues :
                      /\ nonce' = <<n>>
                      /\ pc' = "ChainID"
                      /\ UNCHANGED <<diag, err, exitCode>>
         ELSE /\ Fatal("Failed to create transactor: failed to get nonce",
                       "failed to get nonce")
              /\ UNCHANGED nonce
    /\ UNCHANGED <<cfg, privateKey, polls, chainID, auth, supply, tx, receipt,
                   verifyErr, output>>

\* lines 114-117 (and 44-46 on error)
ChainID ==
    /\ pc = "ChainID"
    /\ netlog' = Append(netlog, "chainid")
    /\ \E ok \in BOOLEAN :
         IF ok THEN \E id \in ChainIDs :
                      /\ chainID' = <<id>>
                      /\ pc' = "GasPrice"
                      /\ UNCHANGED <<diag, err, exitCode>>
         ELSE /\ Fatal("Failed to create transactor: failed to get chain ID",
                       "failed to get chain ID")
              /\ UNCHANGED chainID
    /\ UNCHANGED <<cfg, privateKey, polls, nonce, auth, supply, tx, receipt,
                   verifyErr, output>>

\* the TransactOpts of lines 119-125 and 138 with the given gas price
NewAuth(price) ==
    [Nonce |-> nonce[1], ChainID |-> chainID[1], Value |-> 0,
     GasPrice |-> price, GasLimit |-> cfg.gasLimit]

\* lines 119-140: NewKeyedTransactorWithChainID cannot fail with a non-nil
\* chain id; the gas price is the converted flag or the node's suggestion
GasPrice ==
    /\ pc = "GasPrice"
    /\ IF cfg.gasPriceGwei.num > 0
       THEN /\ auth' = <<NewAuth(GweiFloatToWei(cfg.gasPriceGwei))>>
            /\ pc' = "parseSupply"
            /\ UNCHANGED <<netlog, diag, err, exitCode>>
       ELSE /\ netlog' = Append(netlog, "gasprice")
            /\ \E ok \in BOOLEAN :
                 IF ok THEN \E p \in SuggestedPrices :
                              /\ auth' = <<NewAuth(p)>>
                              /\ pc' = "parseSupply"
                              /\ UNCHANGED <<diag, err, exitCode>>
                 ELSE /\ Fatal("Failed to create transactor: failed to suggest gas price",
                               "failed to suggest gas price")
                      /\ UNCHANGED auth
    /\ UNCHANGED <<cfg, privateKey, polls, nonce, chainID, supply, tx, receipt,
                   verifyErr, output>>

\* lines 48-51
ParseSupplyStep ==
    /\ pc = "parseSupply"
    /\ LET r == parseSupply(cfg.totalSupply, Uint8(cfg.tokenDecimals))
       IN  /\ supply' = r
           /\ IF r.ok THEN pc' = "Deploy" /\ UNCHANGED <<diag, err, exitCode>>
              ELSE Fatal("Failed to parse supply", "invalid supply value")
    /\ UNCHANGED <<cfg, privateKey, netlog, polls, nonce, chainID, auth, tx,
                   receipt, verifyErr, output>>

\* the arguments of the DeployERC20Token call, lines 53-60
DeployArgs ==
    [auth |-> auth[1], name |-> cfg.tokenName, symbol |-> cfg.tokenSymbol,
     decimals |-> Uint8(cfg.tokenDecimals), supply |-> supply]

\* a variant of Deploy that submits a second time when the first broadcast fails
Deploy_Retry ==
    /\ pc = "Deploy"
    /\ netlog' = Append(netlog, "broadcast")
    /\ tx' = <<DeployArgs>>
    /\ \E ok \in BOOLEAN :
         IF ok
         THEN /\ pc' = "WaitMined"
              /\ output' = output \o <<"initiated", "address", "txhash", "waiting">>
              /\ UNCHANGED <<diag, err, exitCode>>
         ELSE IF tx = <<>>
              THEN UNCHANGED <<pc, output, diag, err, exitCode>>
              ELSE Fatal("Failed to deploy contract", "deploy") /\ UNCHANGED output
    /\ UNCHANGED <<cfg, privateKey, polls, nonce, chainID, auth, supply, receipt,
                   verifyErr>>

\* lines 53-68: one contract-creation transaction is built, signed and sent
Deploy ==
    /\ pc = "Deploy"
    /\ netlog' = Append(netlog, "broadcast")
    /\ tx' = <<DeployArgs>>
    /\ \E ok \in BOOLEAN :
         IF ok
         THEN /\ pc' = "WaitMined"
              /\ output' = output \o <<"initiated", "address", "txhash", "waiting">>
              /\ UNCHANGED <<diag, err, exitCode>>
         ELSE Fatal("Failed to deploy contract", "deploy") /\ UNCHANGED output
    /\ UNCHANGED <<cfg, privateKey, polls, nonce, chainID, auth, supply, receipt,
                   verifyErr>>

\* line 70, bind.WaitMined: one receipt query.  A receipt ends the wait; "not
\* found" and query errors alike lead to the wait for the next round.
WaitMinedPoll ==
    /\ pc = "WaitMined"
    /\ polls' = IF polls < MaxPolls THEN polls + 1 ELSE polls
    /\ \E r \in {"receipt", "not found", "rpc error"} :
         IF r = "receipt"
         THEN \E status \in {0, StatusSuccessful} :
                receipt' = <<status>> /\ pc' = "Report"
         ELSE pc' = "WaitTick" /\ UNCHANGED receipt
    /\ UNCHANGED <<cfg, privateKey, err, netlog, nonce, chainID, auth, supply,
                   tx, verifyErr, output, diag, exitCode>>

\* lines 70-73, bind.WaitMined between two queries: the ticker fires, or the
\* context handed in at line 70 is done and its error is returned
WaitMinedSelect ==
    /\ pc = "WaitTick"
    /\ IF CtxDone
       THEN Fatal("Failed to wait for mining", "wait")
       ELSE pc' = "WaitMined" /\ UNCHANGED <<diag, err, exitCode>>
    /\ UNCHANGED <<cfg, privateKey, netlog, polls, nonce, chainID, auth, supply,
                   tx, receipt, verifyErr, output>>

\* a variant of Report that verifies whatever the receipt status is
Report_AlwaysVerify ==
    /\ pc = "Report"
    /\ IF receipt[1] = StatusSuccessful
       THEN /\ output' = Append2(output, "success", "gasused")
            /\ pc' = "Name"
            /\ UNCHANGED exitCode
       ELSE /\ output' = Append(output, "failed")
            /\ pc' = "Name"
            /\ UNCHANGED exitCode
    /\ UNCHANGED <<cfg, privateKey, err, netlog, polls, nonce, chainID, auth,
                   supply, tx, receipt, verifyErr, diag>>

\* lines 75-78 and 91-94
Report ==
    /\ pc = "Report"
    /\ IF receipt[1] = StatusSuccessful
       THEN /\ output' = Append2(output, "success", "gasused")
            /\ pc' = "Name"
            /\ UNCHANGED exitCode
       ELSE /\ output' = Append(output, "failed")
            /\ pc' = "done"
            /\ exitCode' = <<0>>
    /\ UNCHANGED <<cfg, privateKey, err, netlog, polls, nonce, chainID, auth,
                   supply, tx, receipt, verifyErr, diag>>

\* one read-only call: its value is printed if and only if it returned no error
VerifyCall(at, call, next) ==
    /\ pc = at
    /\ netlog' = Append(netlog, call)
    /\ \E ok \in BOOLEAN :
         IF ok THEN output' = Append(output, call) /\ UNCHANGED verifyErr
         ELSE verifyErr' = verifyErr \cup {call} /\ UNCHANGED output
    /\ pc' = next
    /\ exitCode' = IF next = "done" THEN <<0>> ELSE exitCode
    /\ UNCHANGED <<cfg, privateKey, err, polls, nonce, chainID, auth, supply,
                   tx, receipt, diag>>

\* lines 79-82
CallName == VerifyCall("Name", "name", "Symbol")

\* lines 83-86
CallSymbol == VerifyCall("Symbol", "symbol", "Decimals")

\* lines 87-90, then main returns
CallDecimals == VerifyCall("Decimals", "decimals", "done")

Next ==
    \/ ParseFlags
    \/ CheckFlags
    \/ Dial
    \/ HexToECDSA
    \/ PendingNonceAt
    \/ ChainID
    \/ GasPrice
    \/ ParseSupplyStep
    \/ Deploy
    \/ WaitMinedPoll
    \/ WaitMinedSelect
    \/ Report
    \/ CallName
    \/ CallSymbol
    \/ CallDecimals

Spec == Init /\ [][Next]_vars

\* the process is one thread that keeps running: while it waits for the
\* receipt, the query and the wait for the next round are eventually taken
\* (no other action is enabled during the wait)
FairSpec == Spec /\ WF_vars(WaitMinedPoll) /\ WF_vars(WaitMinedSelect)

-----------------------------------------------------------------------------
(* parseSupply on its own: the inputs are drawn, the function is applied *)

SupplyAlphabet == {"0", "1", "9", "+", "-", "a"}

\* 10^18 whole units, and the supply of the end-to-end scenario
LargeSupply == <<"1", "0", "0", "0", "0", "0", "0", "0", "0", "0",
                 "0", "0", "0", "0", "0", "0", "0", "0", "0">>

ScaleSupplies ==
    UNION { [1..k -> SupplyAlphabet] : k \in 0..MaxSupplyLen }
      \cup { LargeSupply, <<"1", "0", "0", "0">> }

\* decimals as parseSupply receives them (a uint8)
ScaleDecimals == (0..MaxSmallDec) \cup {DefaultDecimals, Uint8Mod - 1}

InitScale ==
    /\ cfg \in [rpcURL : {"http://node"}, key : {"KEY"},
                tokenName : {"TestCoin"}, tokenSymbol : {"TST"},
                tokenDecimals : ScaleDecimals, totalSupply : ScaleSupplies,
                gasLimit : {DefaultGasLimit}, gasPriceGwei : {[num |-> 0, den |-> 1]}]
    /\ privateKey = cfg.key
    /\ pc = "scale"
    /\ err = "nil"
    /\ netlog = <<>>
    /\ polls = 0
    /\ nonce = <<>>
    /\ chainID = <<>>
    /\ auth = <<>>
    /\ supply = NilInt
    /\ tx = <<>>
    /\ receipt = <<>>
    /\ verifyErr = {}
    /\ output = <<>>
    /\ diag = ""
    /\ exitCode = <<>>

\* the call of line 48 and its error result
ScaleStep ==
    /\ pc = "scale"
    /\ LET r == parseSupply(cfg.totalSupply, Uint8(cfg.tokenDecimals))
       IN  /\ supply' = r
           /\ err' = IF r.ok THEN "nil" ELSE "invalid supply value"
    /\ pc' = "scaled"
    /\ UNCHANGED <<cfg, privateKey, netlog, polls, nonce, chainID, auth, tx,
                   receipt, verifyErr, output, diag, exitCode>>

SpecScale == InitScale /\ [][ScaleStep]_vars

-----------------------------------------------------------------------------
(* Vocabulary of the properties *)

Count(s, x) == Cardinality({i \in DOMAIN s : s[i] = x})

Issued(op) == \E i \in DOMAIN netlog : netlog[i] = op

Printed(line) == \E i \in DOMAIN output : output[i] = line

IsVerifyOp(op) == op \in {"name", "symbol", "decimals"}

VerifyOps == SelectSeq(netlog, IsVerifyOp)

AllDigits(s) == Len(s) > 0 /\ \A i \in DOMAIN s : IsDigit(s[i])

\* the digits of the decimal numeral s, least significant first, without
\* leading zeros
NumeralDigits(s) == Norm([i \in DOMAIN s |-> DigitVal(s[Len(s) + 1 - i])])

\* a * 10^d on digits: d zeros below the digits of a (zero stays zero)
TimesPow10(a, d) == IF a = <<>> THEN <<>> ELSE [i \in 1..d |-> 0] \o a

\* the decimal digits of a nat, least significant first
DecimalDigits(z) ==
    Norm([i \in 1..(WordDigits * Len(z)) |->
            (z[((i - 1) \div WordDigits) + 1] \div Pow10((i - 1) % WordDigits)) % Base])

\* the value of a nat / of a numeral as an integer (small ones only)
RECURSIVE NatValue(_)
NatValue(z) == IF z = <<>> THEN 0 ELSE Head(z) + WordBase * NatValue(Tail(z))

RECURSIVE NumeralValue(_)
NumeralValue(s) ==
    IF s = <<>> THEN 0
    ELSE Base * NumeralValue(SubSeq(s, 1, Len(s) - 1)) + DigitVal(s[Len(s)])

ConfigMissing ==
    \/ cfg.rpcURL = ""
    \/ privateKey = ""
    \/ cfg.tokenName = ""
    \/ cfg.tokenSymbol = ""
    \/ cfg.totalSupply = <<>>

LogDial == <<"dial">>
LogNonce == <<"dial", "nonce">>
LogChain == <<"dial", "nonce", "chainid">>
LogGas == <<"dial", "nonce", "chainid", "gasprice">>

\* the network operations a run has issued when the given call fails first
LogsAtFailure(e) ==
    CASE e = "dial" -> {LogDial}
      [] e = "invalid private key" -> {LogDial}
      [] e = "failed to get nonce" -> {LogNonce}
      [] e = "failed to get chain ID" -> {LogChain}
      [] e = "failed to suggest gas price" -> {LogGas}
      [] e = "invalid supply value" -> {LogChain, LogGas}
      [] OTHER -> {Append(LogChain, "broadcast"), Append(LogGas, "broadcast")}

\* the diagnostic that names the failed call
DiagOf(e) ==
    CASE e = "dial" -> "Failed to connect to the Ethereum network"
      [] e = "invalid supply value" -> "Failed to parse supply"
      [] e = "deploy" -> "Failed to deploy contract"
      [] e = "wait" -> "Failed to wait for mining"
      [] e = "invalid private key" -> "Failed to create transactor: invalid private key"
      [] e = "failed to get nonce" -> "Failed to create transactor: failed to get nonce"
      [] e = "failed to get chain ID" -> "Failed to create transactor: failed to get chain ID"
      [] OTHER -> "Failed to create transactor: failed to suggest gas price"

-----------------------------------------------------------------------------
(* C1: when the endpoint, the secret (flag and prompted value both empty),   *)
(* the name, the symbol or the supply is absent, the process ends in a fatal *)
(* configuration error and no network operation is issued in that run; and   *)
(* nothing reaches the network before the flags have been checked.           *)
C1_MissingFlagIsFatalBeforeNetwork ==
    /\ pc \in {"flag.Parse", "CheckFlags"} => netlog = <<>> /\ polls = 0
    /\ (pc \notin {"flag.Parse", "CheckFlags"} /\ ConfigMissing) =>
          /\ pc = "fatal"
          /\ exitCode = <<1>>
          /\ diag \in {"All flags are required", "Failed to read private key"}
          /\ netlog = <<>>
          /\ polls = 0

\* the secret was neither given nor typed, everything else was given
C1_Witness ==
    /\ pc = "fatal"
    /\ diag = "All flags are required"
    /\ cfg.rpcURL # "" /\ cfg.key = "" /\ privateKey = ""
    /\ cfg.tokenName # "" /\ cfg.tokenSymbol # "" /\ cfg.totalSupply # <<>>

(* C2: the wait for the receipt is bounded: a run that is waiting for the    *)
(* receipt eventually leaves the wait (with the receipt, or with a fatal     *)
(* timeout when no receipt ever arrives); it cannot stay pending forever.    *)
C2_WaitIsBounded ==
    (pc \in {"WaitMined", "WaitTick"}) ~> (pc \in {"Report", "done", "fatal"})

C4_VerificationByStatus ==
    /\ receipt = <<>> => VerifyOps = <<>>
    /\ (receipt # <<>> /\ receipt[1] # StatusSuccessful) => VerifyOps = <<>>
    /\ (receipt # <<>> /\ pc = "done") =>
          IF receipt[1] = StatusSuccessful
          THEN /\ VerifyOps = <<"name", "symbol", "decimals">>
               /\ Printed("success") /\ ~Printed("failed")
          ELSE /\ VerifyOps = <<>>
               /\ Printed("failed") /\ ~Printed("success")

\* all three calls were made although the first two had failed
C4_Witness ==
    /\ pc = "done"
    /\ receipt = <<StatusSuccessful>>
    /\ {"name", "symbol"} \subseteq verifyErr
    /\ Len(VerifyOps) = 3

(* C5: a supply string that is empty or holds a character that is no digit   *)
(* (a leading sign included) never yields a scaled supply and never reaches  *)
(* the broadcast.                                                            *)
C5_NonDigitSupplyRejected ==
    ~AllDigits(cfg.totalSupply) => (~supply.ok /\ ~Issued("broadcast"))

(* C6: for a supply of decimal digits a and decimals d in 0..255,            *)
(* parseSupply returns exactly a * 10^d: the digits of a followed by d       *)
(* zeros, whatever the size (10^18 with d = 18 gives 10^36, 0 gives 0).      *)
C6_ScaleExact ==
    (pc = "scaled" /\ AllDigits(cfg.totalSupply)) =>
        /\ supply.ok
        /\ ~supply.neg
        /\ DecimalDigits(supply.abs) =
              TimesPow10(NumeralDigits(cfg.totalSupply), cfg.tokenDecimals)
        /\ Len(cfg.totalSupply) + cfg.tokenDecimals <= 9 =>
              NatValue(supply.abs) =
                  NumeralValue(cfg.totalSupply) * Pow10(cfg.tokenDecimals)

\* 10^18 scaled by 18 decimals: 1 followed by 36 zeros
C6_Witness ==
    /\ pc = "scaled"
    /\ cfg.totalSupply = LargeSupply
    /\ cfg.tokenDecimals = DefaultDecimals
    /\ Len(DecimalDigits(supply.abs)) = 37
    /\ DecimalDigits(supply.abs)[37] = 1

(* C7: whenever the broadcast is reached, the authorization carries a        *)
(* gas price above zero and a gas limit above zero.                          *)
C7_GasPositiveAtBroadcast ==
    Issued("broadcast") =>
        tx[1].auth.GasPrice > 0 /\ tx[1].auth.GasLimit > 0

(* C8: after a successful receipt a verification call that fails is reported *)
(* to the user (the report says something about that call), and the run      *)
(* still reports success and does not end in a fatal error.                  *)
C8_VerifyFailureReported ==
    /\ \A c \in verifyErr : Printed(c)
    /\ verifyErr # {} => Printed("success") /\ pc # "fatal"

(* C9: the sequence-number query, the network-identifier query and the       *)
(* broadcast are each issued at most once; the broadcast comes after both    *)
(* queries succeeded and the gas price was determined, and carries their     *)
(* results; if either query fails there is no authorization and no           *)
(* broadcast.                                                                *)
C9_QueriesOnceThenOneBroadcast ==
    /\ Count(netlog, "nonce") <= 1
    /\ Count(netlog, "chainid") <= 1
    /\ Count(netlog, "broadcast") <= 1
    /\ Issued("broadcast") =>
          /\ \E i, j, k \in DOMAIN netlog :
                /\ i < j /\ j < k
                /\ netlog[i] = "nonce" /\ netlog[j] = "chainid"
                /\ netlog[k] = "broadcast"
          /\ nonce # <<>> /\ chainID # <<>> /\ auth # <<>> /\ tx # <<>>
          /\ tx[1].auth = auth[1]
          /\ auth[1].Nonce = nonce[1] /\ auth[1].ChainID = chainID[1]
          /\ auth[1].GasPrice \in Nat
    /\ err \in {"failed to get nonce", "failed to get chain ID"} =>
          auth = <<>> /\ ~Issued("broadcast")

\* a run that broadcast once and came to its end
C9_Witness ==
    pc = "done" /\ Count(netlog, "broadcast") = 1 /\ Count(netlog, "nonce") = 1

(* C10: a run that reaches the broadcast scales the supply by 10^n and       *)
(* passes n as the constructor's decimals, n being the -decimals value; a    *)
(* value above 255 is not reduced modulo 256.                                *)
C10_DecimalsPassedUnchanged ==
    (Issued("broadcast") /\ AllDigits(cfg.totalSupply)) =>
        /\ tx[1].decimals = cfg.tokenDecimals
        /\ DecimalDigits(tx[1].supply.abs) =
              TimesPow10(NumeralDigits(cfg.totalSupply), cfg.tokenDecimals)

====
